---- MODULE Spec2Model ----
(***************************************************************************)
(* Model of the payment core of the voting system: the RateLimiter, the    *)
(* in-memory cache, the /api/contribute handler and PaymentService.        *)
(* Times are milliseconds (Date.now()).                                    *)
(***************************************************************************)
EXTENDS Integers, Sequences, FiniteSets, TLC

(***************************************************************************)
(* Bounds of the model                                                     *)
(***************************************************************************)
MaxLimit == 2
MaxBurst == 1
MaxWindow == 3
MaxExt == 2
MaxTime == 5
MaxPassed == 3
MaxOk == 2
MaxUuid == 1
MaxTtl == 2

Keys == {"ip1", "ip2"}

Max(a, b) == IF a >= b THEN a ELSE b

(***************************************************************************)
(* State                                                                   *)
(***************************************************************************)
VARIABLES
  now,        \* Date.now()
  ctorArgs,   \* the options object handed to new RateLimiter(...); 0 = absent
  options,    \* RateLimiter.options
  store,      \* RateLimiter.store: Map<string, RateLimitEntry>
  storeNoGc,  \* the store of the same limiter had cleanup() never run
  lastCheck,  \* the most recent check(key) call: arguments, entry before/after, result
  seq,        \* per key: number of check calls since its current window was created
  cache,      \* cache-utils `cache`: key -> {value, expiry}
  cacheLog,   \* per key the last setCacheItem not yet deleted, and the last getCacheItem
  reqs,       \* /api/contribute: the requests being handled, one per slot
  passed,     \* per client key: requests let past the rate-limit step in its current window
  timers,     \* /api/contribute: vote increments scheduled with setTimeout(.., 0)
  votes,      \* Candidate.votes of the candidates in the database
  nOk,        \* number of gateway successes so far
  pays,       \* PaymentService.processDirectPayment invocations, one per slot
  records,    \* the PaymentRequest table: id -> row
  nUuid,      \* number of keys uuidv4() has generated
  env,        \* process.env: channel codes, database availability, test mode
  gwLog       \* the requests sent to the gateway: supplied key and Idempotency-Key header

rlVars == <<ctorArgs, options, store, storeNoGc, lastCheck, seq>>
hVars == <<cache, cacheLog, reqs, passed, timers, votes, nOk>>
pVars == <<pays, records, nUuid, env, gwLog>>
vars == <<now, rlVars, hVars, pVars>>

(***************************************************************************)
(* RateLimiter                                                             *)
(***************************************************************************)
DefaultLimit == 60
DefaultWindowMs == 60000
DefaultBurstWindowExtension == 10000

\* constructor: `x || d` takes d whenever x is falsy (undefined or 0)
RateLimiterCtor(o) ==
  [ limit                |-> IF o.limit # 0 THEN o.limit ELSE DefaultLimit,
    windowMs             |-> IF o.windowMs # 0 THEN o.windowMs ELSE DefaultWindowMs,
    burstLimit           |-> IF o.burstLimit # 0 THEN o.burstLimit ELSE o.limit \div 2,
    burstWindowExtension |-> IF o.burstWindowExtension # 0 THEN o.burstWindowExtension
                             ELSE DefaultBurstWindowExtension ]

NoEntry == [count |-> 0, resetTime |-> 0, burstCount |-> 0, burstResetTime |-> 0]

\* `!entry || entry.resetTime <= now`
IsExpiredLate(st, key, t) == key \notin DOMAIN st \/ st[key].resetTime < t
IsExpired(st, key, t) == key \notin DOMAIN st \/ st[key].resetTime <= t

\* entry.resetTime after a burst admission
BurstResetTimeNoMax(entry, opt, t) == t + opt.burstWindowExtension
BurstResetTime(entry, opt, t) == Max(entry.resetTime, t + opt.burstWindowExtension)

Put(st, key, e) == [k \in DOMAIN st \cup {key} |-> IF k = key THEN e ELSE st[k]]

\* `entry.count < this.options.limit`
UnderLimitInclusive(entry, opt) == entry.count <= opt.limit
UnderLimit(entry, opt) == entry.count < opt.limit

\* the store after the "Rate limited" return: nothing is written
StoreAfterRejectionExtended(st, key, entry, opt, t) ==
  Put(st, key, [entry EXCEPT !.resetTime = t + opt.windowMs])
StoreAfterRejection(st, key, entry, opt, t) == st

\* check(key) at time t: the new store, the returned object and the branch taken
check(st, opt, key, t) ==
  IF IsExpired(st, key, t)
  THEN LET e == [count |-> 1, resetTime |-> t + opt.windowMs,
                 burstCount |-> 0, burstResetTime |-> t + opt.windowMs]
       IN [store |-> Put(st, key, e), branch |-> "fresh",
           res |-> [allowed |-> TRUE, remaining |-> opt.limit - 1, resetTime |-> e.resetTime]]
  ELSE LET entry == st[key] IN
    IF UnderLimit(entry, opt)
    THEN LET e == [entry EXCEPT !.count = @ + 1]
         IN [store |-> Put(st, key, e), branch |-> "normal",
             res |-> [allowed |-> TRUE, remaining |-> opt.limit - e.count,
                      resetTime |-> e.resetTime]]
    ELSE IF entry.burstCount < opt.burstLimit
    THEN LET e == [entry EXCEPT !.burstCount = @ + 1,
                                !.resetTime = BurstResetTime(entry, opt, t)]
         IN [store |-> Put(st, key, e), branch |-> "burst",
             res |-> [allowed |-> TRUE, remaining |-> 0, resetTime |-> e.resetTime]]
    ELSE [store |-> StoreAfterRejection(st, key, entry, opt, t), branch |-> "limited",
          res |-> [allowed |-> FALSE, remaining |-> 0, resetTime |-> entry.resetTime]]

\* cleanup(): drops every entry whose resetTime has passed
cleanupAhead(st, t) == [k \in {x \in DOMAIN st : ~(st[x].resetTime <= t + 1)} |-> st[k]]
cleanup(st, t) == [k \in {x \in DOMAIN st : ~(st[x].resetTime <= t)} |-> st[k]]

NoCheck ==
  [op |-> "none", key |-> "ip1", at |-> 0, present |-> FALSE, pre |-> NoEntry,
   post |-> NoEntry, branch |-> "none", n |-> 0,
   res |-> [allowed |-> TRUE, remaining |-> 0, resetTime |-> 0]]

Check(key) ==
  LET r == check(store, options, key, now)
      n == IF r.branch = "fresh" THEN 1 ELSE seq[key] + 1
  IN /\ n <= options.limit + options.burstLimit + 2
     /\ store' = r.store
     /\ storeNoGc' = check(storeNoGc, options, key, now).store
     /\ seq' = [seq EXCEPT ![key] = n]
     /\ lastCheck' = [op |-> "check", key |-> key, at |-> now,
                      present |-> key \in DOMAIN store,
                      pre |-> IF key \in DOMAIN store THEN store[key] ELSE NoEntry,
                      post |-> r.store[key], branch |-> r.branch, n |-> n, res |-> r.res]
     /\ UNCHANGED <<now, ctorArgs, options, hVars, pVars>>

Cleanup ==
  /\ store' = cleanup(store, now)
  /\ lastCheck' = NoCheck
  /\ UNCHANGED <<now, ctorArgs, options, storeNoGc, seq, hVars, pVars>>

Tick ==
  /\ now < MaxTime
  /\ now' = now + 1
  /\ lastCheck' = NoCheck
  /\ UNCHANGED <<ctorArgs, options, store, storeNoGc, seq, hVars, pVars>>

(***************************************************************************)
(* Strings are sequences of one-character strings                          *)
(***************************************************************************)
Digits == {"0", "1", "2", "3", "4", "5", "6", "7", "8", "9"}
IsSpace(c) == c = " "

StartsWith(s, p) == Len(s) >= Len(p) /\ SubSeq(s, 1, Len(p)) = p

RECURSIVE TrimStart(_)
TrimStart(s) == IF s # <<>> /\ IsSpace(Head(s)) THEN TrimStart(Tail(s)) ELSE s

RECURSIVE TrimEnd(_)
TrimEnd(s) ==
  IF s # <<>> /\ IsSpace(s[Len(s)]) THEN TrimEnd(SubSeq(s, 1, Len(s) - 1)) ELSE s

\* String.prototype.trim
Trim(s) == TrimEnd(TrimStart(s))

\* s.replace(/\s+/g, '')
StripSpaces(s) == SelectSeq(s, LAMBDA c : ~IsSpace(c))

\* s.replace(/\D/g, '')
StripNonDigits(s) == SelectSeq(s, LAMBDA c : c \in Digits)

\* /^\d+$/.test(s)
AllDigits(s) == s # <<>> /\ \A i \in 1..Len(s) : s[i] \in Digits

\* /^2547\d{8}$/.test(s)
IsCanonicalPhone(s) ==
  Len(s) = 12 /\ SubSeq(s, 1, 4) = <<"2", "5", "4", "7">> /\ AllDigits(s)

(***************************************************************************)
(* cache-utils                                                             *)
(***************************************************************************)
NoResult == [allowed |-> TRUE, remaining |-> 0, resetTime |-> 0]

\* getCacheItem with `item.expiry <= now`
getCacheItemStrict(c, key, t) ==
  IF key \notin DOMAIN c \/ c[key].expiry <= t
  THEN [hit |-> FALSE, value |-> NoResult]
  ELSE [hit |-> TRUE, value |-> c[key].value]

\* getCacheItem: null (hit = FALSE) when the item is missing or item.expiry < now
getCacheItem(c, key, t) ==
  IF key \notin DOMAIN c \/ c[key].expiry < t
  THEN [hit |-> FALSE, value |-> NoResult]
  ELSE [hit |-> TRUE, value |-> c[key].value]

\* setCacheItem(key, value, ttl)
setCacheItem(c, key, value, ttl, t) ==
  [k \in DOMAIN c \cup {key} |-> IF k = key THEN [value |-> value, expiry |-> t + ttl] ELSE c[k]]

\* deleteCacheItem(key)
deleteCacheItem(c, key) == [k \in DOMAIN c \ {key} |-> c[k]]

\* clearExpiredCache()
clearExpiredCache(c, t) == [k \in {j \in DOMAIN c : ~(c[j].expiry < t)} |-> c[k]]

\* the calls made on the cache: what was last set (and not deleted since) under each
\* key and until when, and what the last getCacheItem returned
NoGot == [key |-> "", at |-> 0, hit |-> FALSE, value |-> NoResult]
NoCacheLog == [expect |-> <<>>, got |-> NoGot]
LogSet(log, key, value, ttl, t) ==
  [expect |-> [k \in DOMAIN log.expect \cup {key} |->
                 IF k = key THEN [value |-> value, until |-> t + ttl] ELSE log.expect[k]],
   got |-> NoGot]
LogDelete(log, key) ==
  [expect |-> [k \in DOMAIN log.expect \ {key} |-> log.expect[k]], got |-> NoGot]
LogGet(log, key, t, r) ==
  [log EXCEPT !.got = [key |-> key, at |-> t, hit |-> r.hit, value |-> r.value]]

CacheValues ==
  { [allowed |-> TRUE, remaining |-> 1, resetTime |-> 3],
    [allowed |-> FALSE, remaining |-> 0, resetTime |-> 3] }

CacheSet(key, value, ttl) ==
  /\ cache' = setCacheItem(cache, key, value, ttl, now)
  /\ cacheLog' = LogSet(cacheLog, key, value, ttl, now)
  /\ UNCHANGED <<now, rlVars, reqs, passed, timers, votes, nOk, pVars>>

CacheGet(key) ==
  /\ cacheLog' = LogGet(cacheLog, key, now, getCacheItem(cache, key, now))
  /\ UNCHANGED <<now, rlVars, cache, reqs, passed, timers, votes, nOk, pVars>>

CacheDelete(key) ==
  /\ cache' = deleteCacheItem(cache, key)
  /\ cacheLog' = LogDelete(cacheLog, key)
  /\ UNCHANGED <<now, rlVars, reqs, passed, timers, votes, nOk, pVars>>

\* the periodic sweep (scheduled every 5 minutes where `window` exists)
ClearExpired ==
  /\ cache' = clearExpiredCache(cache, now)
  /\ UNCHANGED <<now, rlVars, cacheLog, reqs, passed, timers, votes, nOk, pVars>>

(***************************************************************************)
(* /api/contribute: handler behind safeHandler                            *)
(***************************************************************************)
VoteLimit == 300
VoteWindowMs == 60000
VoteBurstLimit == 150
RateLimitCacheTtl == 1000
PricePerVote == 10

\* the options of voteRateLimiter; burstWindowExtension is not given
VoteRateLimiterArgs ==
  [limit |-> VoteLimit, windowMs |-> VoteWindowMs, burstLimit |-> VoteBurstLimit,
   burstWindowExtension |-> 0]

Slots == {"r1", "r2"}
PaySlots == {"p1"}
Ips == {"ip1"}
Candidates == {"c1"}

PhoneLocal == <<"0", "7", "1", "2", "3", "4", "5", "6", "7", "8">>
PhoneShort == <<"1", "2", "3", "4", "5">>
PhoneAlpha == <<"0", "7", "x", "y">>

\* request bodies: json = FALSE is a body that request.json() cannot parse
Body(amount, kitty, phone, method) ==
  [json |-> TRUE, amount |-> amount, kitty_id |-> kitty, phone_number |-> phone,
   paymentMethod |-> method]

BodyValid == Body(25, "c1", PhoneLocal, "mpesa")

ContribBodies ==
  { BodyValid, Body(5, "c1", PhoneLocal, "card"), Body(25, "zz", PhoneLocal, "mpesa"),
    Body(100, "c1", PhoneLocal, "mpesa"),
    Body(5, "c1", PhoneShort, "mpesa"), Body(5, "c1", PhoneAlpha, "mpesa"),
    Body(0, "c1", PhoneLocal, "mpesa"), Body(5, "", PhoneLocal, "mpesa"),
    Body(5, "c1", <<>>, "mpesa"), Body(5, "c1", PhoneLocal, "cash") }

NoBody ==
  [json |-> FALSE, amount |-> 0, kitty_id |-> "", phone_number |-> <<>>,
   paymentMethod |-> "mpesa"]

\* paymentSchema.safeParse(requestBody).success
ContribSchemaOk(b) ==
  /\ b.amount > 0 /\ b.amount >= 1
  /\ b.kitty_id # ""
  /\ Len(b.phone_number) >= 1
  /\ b.paymentMethod \in {"mpesa", "card"}

\* lines 105-111: 07... -> 2547..., then trim and remove whitespace
ContribFormatPhone(phone) ==
  LET f == IF StartsWith(phone, <<"0", "7">>) THEN <<"2", "5", "4">> \o Tail(phone)
           ELSE phone
  IN StripSpaces(Trim(f))

\* line 112: /^\d+$/.test(formattedPhone.replace(/^\+/, ''))
ContribPhoneOk(f) ==
  AllDigits(IF f # <<>> /\ Head(f) = "+" THEN Tail(f) ELSE f)

\* line 45: the request is answered 429
IsRateLimitedNeg(result) == result.allowed
IsRateLimited(result) == ~result.allowed

\* line 226
VoteCountNoMinimum(amount) == amount \div PricePerVote
VoteCount(amount) == Max(1, amount \div PricePerVote)

\* lines 212 and 221: the response is OK and data && data.status
IsGatewaySuccessAnyOk(outcome) == outcome \in {"ok_true", "ok_false"}
IsGatewaySuccess(outcome) == outcome = "ok_true"

Resp(http, status, message) == [http |-> http, status |-> status, message |-> message]
NoResp == Resp(0, FALSE, "")

IdleReq ==
  [pc |-> "idle", ip |-> "ip1", body |-> NoBody, decision |-> "none",
   exhausted |-> FALSE, expired |-> FALSE, gw |-> 0, sent |-> <<>>,
   outcome |-> "none", gwMsg |-> "", resp |-> NoResp]

\* the key's window is unexpired with base limit and burst allowance both used up
Exhausted(st, opt, key, t) ==
  /\ key \in DOMAIN st
  /\ st[key].resetTime > t
  /\ st[key].count >= opt.limit
  /\ st[key].burstCount >= opt.burstLimit

\* lines 27-183: from the arrival of the request to its first response or to the
\* gateway fetch
ContribRequest(r, ip, body) ==
  LET cached  == getCacheItem(cache, ip, now)
      c       == check(store, options, ip, now)
      result  == IF cached.hit THEN cached.value ELSE c.res
      f       == ContribFormatPhone(body.phone_number)
      base    == [IdleReq EXCEPT !.ip = ip, !.body = body,
                    !.decision = IF cached.hit THEN "cached" ELSE "checked",
                    !.exhausted = Exhausted(store, options, ip, now),
                    !.expired = ip \in DOMAIN store /\ store[ip].resetTime <= now]
      done(h, m) == [base EXCEPT !.pc = "done", !.resp = Resp(h, FALSE, m)]
  IN /\ reqs[r].pc \in {"idle", "done"}
     /\ store' = IF cached.hit THEN store ELSE c.store
     /\ storeNoGc' = IF cached.hit THEN storeNoGc
                     ELSE check(storeNoGc, options, ip, now).store
     /\ cache' = IF cached.hit THEN cache
                 ELSE setCacheItem(cache, ip, c.res, RateLimitCacheTtl, now)
     /\ cacheLog' = IF cached.hit THEN LogGet(cacheLog, ip, now, cached)
                    ELSE LogSet(cacheLog, ip, c.res, RateLimitCacheTtl, now)
     /\ passed' = IF IsRateLimited(result) THEN passed
                  ELSE IF ~cached.hit /\ c.branch = "fresh" THEN [passed EXCEPT ![ip] = 1]
                  ELSE [passed EXCEPT ![ip] = IF @ < MaxPassed THEN @ + 1 ELSE @]
     /\ reqs' = [reqs EXCEPT ![r] =
          IF IsRateLimited(result)
            THEN done(429, "Too many requests. Please try again shortly.")
          ELSE IF ~body.json THEN done(400, "Invalid request format")
          ELSE IF ~ContribSchemaOk(body) THEN done(400, "Invalid payment data")
          ELSE IF ~ContribPhoneOk(f) THEN done(400, "Invalid phone number format")
          ELSE [base EXCEPT !.pc = "fetching", !.gw = 1, !.sent = f]]
     /\ UNCHANGED <<now, ctorArgs, options, lastCheck, seq, timers, votes, nOk, pVars>>

\* csrfProtection (csrf-middleware.ts): in production a POST without a valid
\* X-CSRF-Token is answered 403 and the handler is not entered
ContribCsrfReject(r, ip, body) ==
  /\ reqs[r].pc \in {"idle", "done"}
  /\ reqs' = [reqs EXCEPT ![r] =
       [IdleReq EXCEPT !.ip = ip, !.body = body, !.pc = "done",
                       !.resp = Resp(403, FALSE, "Invalid or missing CSRF token")]]
  /\ UNCHANGED <<now, rlVars, cache, cacheLog, passed, timers, votes, nOk, pVars>>

GwOutcomes == {"ok_true", "ok_false", "http_error", "bad_json", "timeout", "conn_error"}
GwMessages == {"", "declined"}

\* lines 185-271 and safeHandler: the gateway's answer (or the 15 s abort) arrives
ContribGatewayAnswer(r, outcome, msg) ==
  LET q == reqs[r]
      or(m, d) == IF m # "" THEN m ELSE d
      resp ==
        CASE outcome = "bad_json" -> Resp(500, FALSE, "Invalid response from payment server")
          [] outcome = "http_error" -> Resp(502, FALSE, or(msg, "Payment failed"))
          [] IsGatewaySuccess(outcome) ->
               Resp(200, TRUE,
                    IF q.body.paymentMethod = "mpesa"
                    THEN or(msg, "M-Pesa payment initiated. Please check your phone for the payment prompt.")
                    ELSE or(msg, "Payment initiated successfully"))
          [] outcome = "ok_false" -> Resp(500, FALSE, "An unexpected error occurred")
          [] outcome = "timeout" ->
               Resp(500, FALSE, "The payment request timed out. Please try again.")
          [] outcome = "conn_error" -> Resp(500, FALSE, "Failed to connect to payment server")
  IN /\ q.pc = "fetching"
     /\ IsGatewaySuccess(outcome) => nOk < MaxOk
     /\ reqs' = [reqs EXCEPT ![r] = [q EXCEPT !.pc = "done", !.outcome = outcome,
                                              !.gwMsg = msg, !.resp = resp]]
     /\ timers' = IF IsGatewaySuccess(outcome)
                  THEN Append(timers, [candidateId |-> q.body.kitty_id,
                                       amount |-> q.body.amount,
                                       voteCount |-> VoteCount(q.body.amount)])
                  ELSE timers
     /\ nOk' = IF IsGatewaySuccess(outcome) THEN nOk + 1 ELSE nOk
     /\ UNCHANGED <<now, rlVars, cache, cacheLog, passed, votes, pVars>>

\* the increment as it would be if the handler awaited it: a failed update turns the
\* responses of the finished requests for that candidate into errors
VoteTimerFiresAwaited(i) ==
  LET t == timers[i] IN
  /\ timers' = [j \in 1..(Len(timers) - 1) |-> IF j < i THEN timers[j] ELSE timers[j + 1]]
  /\ votes' = IF t.candidateId \in DOMAIN votes
              THEN [votes EXCEPT ![t.candidateId] = @ + t.voteCount]
              ELSE votes
  /\ reqs' = [r \in Slots |->
       IF reqs[r].pc = "done" /\ reqs[r].body.kitty_id = t.candidateId
          /\ t.candidateId \notin DOMAIN votes
       THEN [reqs[r] EXCEPT !.resp = Resp(500, FALSE, "Internal server error")]
       ELSE reqs[r]]
  /\ UNCHANGED <<now, rlVars, cache, cacheLog, passed, nOk, pVars>>

\* lines 229-240: a scheduled increment runs; prisma.candidate.update throws for an
\* unknown candidate and the error is only logged
VoteTimerFires(i) ==
  LET t == timers[i] IN
  /\ timers' = [j \in 1..(Len(timers) - 1) |-> IF j < i THEN timers[j] ELSE timers[j + 1]]
  /\ votes' = IF t.candidateId \in DOMAIN votes
              THEN [votes EXCEPT ![t.candidateId] = @ + t.voteCount]
              ELSE votes
  /\ UNCHANGED <<now, rlVars, cache, cacheLog, reqs, passed, nOk, pVars>>

AdmitTimePoints == {0, 1000, 1001, 59500, 60000, 60500, 60501}
ContribTimePoints == {0, 1001}

\* the clock moves on to a later instant
TickTo(points) ==
  /\ \E t \in points : t > now /\ now' = t
  /\ UNCHANGED <<rlVars, hVars, pVars>>

Raw(amount, kitty, ktype, phone, code, auth, method, key) ==
  [amount |-> amount, kitty_id |-> kitty, kitty_type |-> ktype, phone_number |-> phone,
   channel_code |-> code, auth_code |-> auth, paymentMethod |-> method,
   idempotencyKey |-> key]

NoRaw == Raw(0, "", "string", <<>>, 0, "", "", "")

PayResult(status, message, tx, url) ==
  [status |-> status, message |-> message, transactionId |-> tx, checkoutUrl |-> url]
NoPayResult == PayResult(FALSE, "", "", "")

IdlePay ==
  [pc |-> "idle", route |-> "direct", raw |-> NoRaw, decision |-> "none", valid |-> FALSE,
   key |-> "", gw |-> 0, sentKey |-> "", sentPhone |-> <<>>, persistKey |-> "",
   persisted |-> FALSE, outcome |-> "none", gwMsg |-> "",
   write |-> [status |-> "", message |-> "", transactionId |-> "", checkoutUrl |-> ""],
   result |-> NoPayResult]

(***************************************************************************)
(* PaymentService (lib/payment-service.ts) and the routes that call it     *)
(***************************************************************************)
ChannelMpesa == 63902
ChannelAirtel == 63903
ChannelCard == 55
KnownChannelCodes == {ChannelMpesa, ChannelAirtel, ChannelCard}

PhonePlus == <<"+", "2", "5", "4", "7", "1", "2", "3", "4", "5", "6", "7", "8">>
PhoneNine == <<"7", "1", "2", "3", "4", "5", "6", "7", "8">>
PhoneCanonical == <<"2", "5", "4", "7", "1", "2", "3", "4", "5", "6", "7", "8">>

\* the normalization with phone.slice(2) in place of phone.slice(1)
NormalizePhoneSliceTwo(input) ==
  LET phone == Trim(input)
      p == IF StartsWith(phone, <<"0", "7">>) THEN <<"2", "5", "4">> \o Tail(Tail(phone))
           ELSE IF StartsWith(phone, <<"+", "2", "5", "4">>) THEN Tail(phone)
           ELSE IF ~StartsWith(phone, <<"2", "5", "4">>) /\ Len(phone) = 9 /\ AllDigits(phone)
                THEN <<"2", "5", "4">> \o phone
           ELSE phone
  IN StripNonDigits(p)

\* lines 119-136: trim, rewrite the prefix, drop every non-digit
NormalizePhone(input) ==
  LET phone == Trim(input)
      p == IF StartsWith(phone, <<"0", "7">>) THEN <<"2", "5", "4">> \o Tail(phone)
           ELSE IF StartsWith(phone, <<"+", "2", "5", "4">>) THEN Tail(phone)
           ELSE IF ~StartsWith(phone, <<"2", "5", "4">>) /\ Len(phone) = 9 /\ AllDigits(phone)
                THEN <<"2", "5", "4">> \o phone
           ELSE phone
  IN StripNonDigits(p)

\* line 139: the strict format test
PhoneFormatOkAny(phone) == TRUE
PhoneFormatOk(phone) == IsCanonicalPhone(phone)

\* paymentSchema.parse (lines 26-42); codes = channelCodes, empty when
\* ONE_KITTY_CHANNEL_CODES is not set
PaySchemaOk(raw, codes) ==
  /\ raw.amount > 0 /\ raw.amount >= 1
  /\ raw.kitty_type = "string" /\ raw.kitty_id # ""
  /\ Len(raw.phone_number) >= 1
  /\ (codes = {} \/ raw.channel_code \in codes)
  /\ raw.auth_code # ""
  /\ raw.paymentMethod \in {"", "mpesa", "airtel", "card"}

\* uuidv4(): the n-th generated key
Uuids == <<"u1", "u2", "u3", "u4", "u5", "u6">>

\* line 75: data.idempotencyKey || uuidv4()   ("" stands for absent or empty)
IdempotencyKeyFresh(supplied, n) == Uuids[n]
IdempotencyKey(supplied, n) == IF supplied # "" THEN supplied ELSE Uuids[n]

\* line 202: axios(axiosConfig) sends one request
IssueCallTwice(gw) == gw + 2
IssueCall(gw) == gw + 1

\* ids that parseInt turns into a positive integer
NumericIds == {"7"}

\* /api/payments/direct answers by itself (missing fields, or test mode) and does not
\* call processDirectPayment
DirectAnswersItself(raw, e) ==
  \/ raw.phone_number = <<>> \/ raw.amount = 0 \/ raw.kitty_id = ""
  \/ e.testMode

\* the vote route (part_000): voteSchema.parse fails; raw.amount is the number of votes
VoteSchemaFails(raw) ==
  ~ /\ raw.kitty_id \in NumericIds
    /\ raw.amount > 0
    /\ Len(raw.phone_number) >= 1
    /\ raw.channel_code \in KnownChannelCodes
    /\ raw.auth_code # ""

\* what the vote route hands to processDirectPayment: kitty_id is a number, the amount
\* is votes * 10, and there is neither a payment method nor an idempotency key
VoteRouteData(raw) ==
  [raw EXCEPT !.amount = @ * PricePerVote, !.kitty_type = "number", !.paymentMethod = "",
              !.idempotencyKey = ""]

\* the route calls processDirectPayment, with this argument
CallsService(route, raw, e) ==
  IF route = "direct" THEN ~DirectAnswersItself(raw, e) ELSE ~VoteSchemaFails(raw)
ServiceData(route, raw) == IF route = "vote" THEN VoteRouteData(raw) ELSE raw

\* lines 62-80 and 157-202: validate, pick the key, send the request to the gateway
processDirectPaymentStart(q, raw, codes, n) ==
  IF ~PaySchemaOk(raw, codes)
    THEN [q EXCEPT !.pc = "done", !.result = PayResult(FALSE, "Validation error", "", "")]
  ELSE IF ~PhoneFormatOk(NormalizePhone(raw.phone_number))
    THEN [q EXCEPT !.pc = "done", !.result = PayResult(FALSE, "Validation error", "", "")]
  ELSE LET key == IdempotencyKey(raw.idempotencyKey, n)
       IN [q EXCEPT !.pc = "calling", !.valid = TRUE, !.key = key,
                    !.gw = IssueCall(@), !.sentKey = key,
                    !.sentPhone = NormalizePhone(raw.phone_number)]

\* a request arrives at /api/payments/direct or at the vote route
PayRequest(p, route, raw) ==
  LET q0 == [IdlePay EXCEPT !.route = route, !.raw = raw]
      data == ServiceData(route, raw)
      started == processDirectPaymentStart(q0, data, env.channelCodes, nUuid + 1)
      calls == CallsService(route, raw, env) /\ started.pc = "calling"
      usesUuid == calls /\ data.idempotencyKey = ""
  IN /\ pays[p].pc \in {"idle", "done"}
     /\ usesUuid => nUuid < MaxUuid
     /\ pays' = [pays EXCEPT ![p] =
          IF CallsService(route, raw, env) THEN started
          ELSE IF route = "vote"
            THEN [q0 EXCEPT !.pc = "done", !.result = PayResult(FALSE, "Validation error", "", "")]
          ELSE IF raw.phone_number = <<>> \/ raw.amount = 0 \/ raw.kitty_id = ""
            THEN [q0 EXCEPT !.pc = "done",
                            !.result = PayResult(FALSE, "Missing required fields in request", "", "")]
          ELSE [q0 EXCEPT !.pc = "done",
                          !.result = PayResult(TRUE, "Test payment initiated successfully", "test", "")]]
     /\ nUuid' = IF usesUuid THEN nUuid + 1 ELSE nUuid
     /\ gwLog' = IF calls
                 THEN gwLog \cup {[supplied |-> data.idempotencyKey, sent |-> started.sentKey]}
                 ELSE gwLog
     /\ UNCHANGED <<now, rlVars, hVars, records, env>>

\* what the gateway can answer: the kind of answer, the body's message ("" when it
\* has none) and the body's data.transaction_id ("" when it has none)
Answer(outcome, msg, tx) == [outcome |-> outcome, msg |-> msg, tx |-> tx]
PayAnswers ==
  { Answer("ok_true", "", "t1"), Answer("ok_true", "sent", "t1"), Answer("ok_true", "", ""),
    Answer("ok_false", "declined", ""), Answer("ok_false", "", "t1"),
    Answer("http_4xx", "declined", ""), Answer("http_5xx", "declined", ""),
    Answer("no_response", "", ""), Answer("thrown", "", "") }

\* lines 202-264 and 78-94: the gateway's answer is turned into a result, and the
\* upsert of the outcome is sent to the store
\* JSON.stringify(response.data) of a failure body carrying the message msg
JsonBody(msg) == "{\"status\":false,\"message\":\"" \o msg \o "\"}"

GatewayResult(outcome, msg, tx) ==
  CASE outcome = "ok_true" ->
         PayResult(TRUE, IF msg # "" THEN msg ELSE "Payment request processed", tx, "")
    [] outcome = "ok_false" ->
         PayResult(FALSE, IF msg # "" THEN msg ELSE "Payment request processed", tx, "")
    [] outcome = "http_4xx" ->
         PayResult(FALSE, "OneKitty API error (400): " \o JsonBody(msg), "", "")
    [] outcome = "http_5xx" ->
         PayResult(FALSE, "API Error: 500 - " \o JsonBody(msg), "", "")
    [] outcome = "no_response" ->
         PayResult(FALSE, "Network error - the payment gateway could not be reached. Please check your connection.", "", "")
    [] outcome = "thrown" -> PayResult(FALSE, "Error", "", "")

\* lines 82 and 90: the status that is persisted
PersistStatusProcessing(ok) == "processing"
PersistStatus(ok) == IF ok THEN "processing" ELSE "failed"

PayGatewayAnswer(p, a) ==
  LET q == pays[p]
      res == GatewayResult(a.outcome, a.msg, a.tx)
  IN /\ q.pc = "calling"
     /\ pays' = [pays EXCEPT ![p] =
          [q EXCEPT !.pc = "persisting", !.persistKey = q.key, !.outcome = a.outcome,
                    !.gwMsg = a.msg,
                    !.write = [status |-> PersistStatus(res.status),
                               message |-> res.message,
                               transactionId |-> res.transactionId,
                               checkoutUrl |-> res.checkoutUrl],
                    !.result = IF res.status THEN res
                               ELSE PayResult(FALSE, res.message, "", "")]]
     /\ UNCHANGED <<now, rlVars, hVars, records, env, nUuid, gwLog>>

\* another record already carries this transaction id (transactionId is @unique)
TxTakenNever(recs, id, tx) == FALSE
TxTaken(recs, id, tx) ==
  tx # "" /\ \E k \in DOMAIN recs : k # id /\ recs[k].transactionId = tx

\* prisma.paymentRequest.upsert({where: {id}, create, update}) (lines 286-311)
upsert(recs, id, create, update) ==
  IF id \in DOMAIN recs
  THEN [recs EXCEPT ![id] = [@ EXCEPT !.status = update.status,
                                      !.responseMessage = update.message,
                                      !.transactionId = update.transactionId,
                                      !.checkoutUrl = update.checkoutUrl]]
  ELSE [k \in DOMAIN recs \cup {id} |-> IF k = id THEN create ELSE recs[k]]

\* the `create` object of persistRequest (lines 288-303)
CreateRow(q) ==
  [id |-> q.persistKey, amount |-> q.raw.amount, candidateId |-> q.raw.kitty_id,
   channelCode |-> q.raw.channel_code, phoneNumber |-> q.sentPhone,
   paymentMethod |-> IF q.raw.paymentMethod # "" THEN q.raw.paymentMethod ELSE "mpesa",
   status |-> q.write.status, responseMessage |-> q.write.message,
   transactionId |-> q.write.transactionId, checkoutUrl |-> q.write.checkoutUrl]

\* the database refuses the write: transactionId is @unique, and a new row needs an
\* existing candidate (candidateId is a foreign key)
DbRefuses(recs, q) ==
  \/ TxTaken(recs, q.persistKey, q.write.transactionId)
  \/ q.persistKey \notin DOMAIN recs /\ q.raw.kitty_id \notin DOMAIN votes

\* lines 322-331 and 96-107: an error of the store is caught and logged inside
\* persistRequest, and processDirectPayment returns the result it already has
ResultAfterPersistRethrown(result, threw) ==
  IF threw THEN PayResult(FALSE, "DB persistence error", "", "") ELSE result
ResultAfterPersist(result, threw) == result

\* persistRequest (lines 270-332) completes: dbOk = FALSE is a store that throws; the
\* error is logged and swallowed, and processDirectPayment returns its result
PayPersist(p, dbOk) ==
  LET q == pays[p]
      written == env.dbOn /\ dbOk /\ ~DbRefuses(records, q)
  IN /\ q.pc = "persisting"
     /\ records' = IF written THEN upsert(records, q.persistKey, CreateRow(q), q.write)
                   ELSE records
     /\ pays' = [pays EXCEPT ![p] =
          [q EXCEPT !.pc = "done", !.persisted = written,
                    !.result = ResultAfterPersist(@, env.dbOn /\ ~written)]]
     /\ UNCHANGED <<now, rlVars, hVars, env, nUuid, gwLog>>

(***************************************************************************)
(* The gateway's callback (second POST of app/api/contribute/route.ts)     *)
(***************************************************************************)
Payload(tx, pid, pstatus, status, msg, amount, kitty, method) ==
  [transaction_id |-> tx, payment_id |-> pid, payment_status |-> pstatus, status |-> status,
   message |-> msg, amount |-> amount, kitty_id |-> kitty, payment_method |-> method]

\* a || b for strings, "" standing for an absent or empty value
OrElse(a, b) == IF a # "" THEN a ELSE b

\* payment_status || status || 'processed'
CallbackStatus(pl) == OrElse(pl.payment_status, OrElse(pl.status, "processed"))

PhoneUnknown == <<"u", "n", "k", "n", "o", "w", "n">>

\* the row of prisma.paymentRequest.create (lines 377-391)
CallbackRow(pl) ==
  [id |-> OrElse(pl.payment_id, pl.transaction_id), amount |-> pl.amount,
   candidateId |-> OrElse(pl.kitty_id, "unknown"), channelCode |-> ChannelMpesa,
   phoneNumber |-> PhoneUnknown, paymentMethod |-> OrElse(pl.payment_method, "mpesa"),
   status |-> CallbackStatus(pl), responseMessage |-> OrElse(pl.message, "Created from callback"),
   transactionId |-> pl.transaction_id, checkoutUrl |-> ""]

\* connectOrCreate: the candidate row is created with votes 0 when it is missing
ConnectOrCreate(vs, c) ==
  IF c \in DOMAIN vs THEN vs ELSE [k \in DOMAIN vs \cup {c} |-> IF k = c THEN 0 ELSE vs[k]]

\* callback POST (lines 314-437)
Callback(pl) ==
  LET byTx == {k \in DOMAIN records : records[k].transactionId = pl.transaction_id}
      row == CallbackRow(pl)
  IN /\ IF pl.transaction_id = "" THEN UNCHANGED <<records, votes>>
        ELSE IF byTx # {} THEN
          /\ records' = [records EXCEPT ![CHOOSE k \in byTx : TRUE] =
                [@ EXCEPT !.status = CallbackStatus(pl),
                          !.responseMessage = OrElse(pl.message, "Callback processed"),
                          !.amount = IF pl.amount # 0 THEN pl.amount ELSE @,
                          !.paymentMethod = OrElse(pl.payment_method, @)]]
          /\ UNCHANGED votes
        ELSE IF pl.payment_id # "" /\ pl.payment_id \in DOMAIN records THEN
          /\ records' = [records EXCEPT ![pl.payment_id] =
                [@ EXCEPT !.status = CallbackStatus(pl),
                          !.responseMessage = OrElse(pl.message, "Callback received"),
                          !.transactionId = pl.transaction_id]]
          /\ UNCHANGED votes
        ELSE IF row.id \in DOMAIN records THEN UNCHANGED <<records, votes>>
        ELSE
          /\ records' = [k \in DOMAIN records \cup {row.id} |->
                           IF k = row.id THEN row ELSE records[k]]
          /\ votes' = ConnectOrCreate(votes, row.candidateId)
     /\ UNCHANGED <<now, rlVars, cache, cacheLog, reqs, passed, timers, nOk, pays, nUuid, env, gwLog>>

CallbackPayloads ==
  { Payload("t1", "", "", "completed", "paid", 0, "", ""),
    Payload("t1", "k1", "", "failed", "", 0, "c1", ""),
    Payload("t2", "k1", "pending", "completed", "", 25, "", "card"),
    Payload("t2", "", "", "", "", 0, "zz", ""),
    Payload("", "k1", "", "completed", "", 0, "", "") }

\* payloads for the record store: one key, a known and an unknown candidate
StoreRaws ==
  { Raw(25, "c1", "string", PhoneLocal, ChannelMpesa, "tok", "", "k1"),
    Raw(25, "zz", "string", PhoneLocal, ChannelCard, "tok", "card", "k1") }

PayRaws ==
  { Raw(25, "c1", "string", PhoneLocal, ChannelMpesa, "tok", "", ""),
    Raw(25, "c1", "string", PhoneLocal, ChannelMpesa, "tok", "", "k1"),
    Raw(25, "zz", "string", PhoneLocal, ChannelCard, "tok", "card", "k1"),
    Raw(25, "c1", "string", PhoneShort, ChannelMpesa, "tok", "", "k1"),
    Raw(25, "c1", "string", PhoneAlpha, ChannelMpesa, "tok", "", ""),
    Raw(25, "c1", "string", PhoneLocal, 99, "tok", "", "k1"),
    Raw(25, "c1", "string", PhoneLocal, ChannelMpesa, "", "", "k1"),
    Raw(25, "c1", "string", PhoneLocal, ChannelMpesa, "tok", "cash", "k1"),
    Raw(0, "c1", "string", PhoneLocal, ChannelMpesa, "tok", "", "k1"),
    Raw(25, "", "string", PhoneLocal, ChannelMpesa, "tok", "", "k1"),
    Raw(25, "c1", "string", <<>>, ChannelMpesa, "tok", "", "k1"),
    Raw(25, "7", "number", PhoneLocal, ChannelMpesa, "tok", "", "k1"),
    Raw(25, "c1", "string", PhonePlus, ChannelAirtel, "tok", "airtel", "k1"),
    Raw(25, "c1", "string", PhoneNine, ChannelMpesa, "tok", "mpesa", ""),
    Raw(25, "c1", "string", PhoneCanonical, ChannelMpesa, "tok", "", "k1"),
    Raw(25, "c1", "string", PhoneLocal, ChannelCard, "tok", "", "k1") }

(***************************************************************************)
(* Initial states and specifications                                      *)
(***************************************************************************)
Env(codes, dbOn, testMode) == [channelCodes |-> codes, dbOn |-> dbOn, testMode |-> testMode]
\* nothing set in process.env
DefaultEnv == Env({}, TRUE, FALSE)
Envs ==
  { Env({}, TRUE, FALSE), Env(KnownChannelCodes, TRUE, FALSE), Env({}, FALSE, FALSE),
    Env({}, TRUE, TRUE) }

InitP ==
  /\ pays = [p \in PaySlots |-> IdlePay]
  /\ records = <<>>
  /\ nUuid = 0
  /\ gwLog = {}

InitH ==
  /\ cache = <<>>
  /\ cacheLog = NoCacheLog
  /\ reqs = [r \in Slots |-> IdleReq]
  /\ passed = [ip \in Keys |-> 0]
  /\ timers = <<>>
  /\ votes = [c \in Candidates |-> 0]
  /\ nOk = 0

InitContrib ==
  /\ now = 0
  /\ ctorArgs = VoteRateLimiterArgs
  /\ options = RateLimiterCtor(ctorArgs)
  /\ store = <<>>
  /\ storeNoGc = <<>>
  /\ lastCheck = NoCheck
  /\ seq = [k \in Keys |-> 0]
  /\ InitH
  /\ InitP
  /\ env = DefaultEnv

\* /api/contribute with every kind of body and gateway answer, one request at a time
NextContrib ==
  \/ \E ip \in Ips, body \in ContribBodies \cup {NoBody} : ContribRequest("r1", ip, body)
  \/ \E ip \in Ips : ContribCsrfReject("r1", ip, BodyValid)
  \/ \E outcome \in GwOutcomes, msg \in GwMessages : ContribGatewayAnswer("r1", outcome, msg)
  \/ \E i \in 1..Len(timers) : VoteTimerFires(i)
  \/ TickTo(ContribTimePoints)

SpecContrib == InitContrib /\ [][NextContrib]_vars

\* the admission step of /api/contribute: concurrent requests of one client, the
\* limiter's cleanup timer and the clock
NextAdmit ==
  \/ \E r \in Slots, ip \in Ips : ContribRequest(r, ip, BodyValid)
  \/ \E r \in Slots, ip \in Ips : ContribCsrfReject(r, ip, BodyValid)
  \/ \E r \in Slots : ContribGatewayAnswer(r, "timeout", "")
  \/ Cleanup
  \/ TickTo(AdmitTimePoints)

SpecAdmit == InitContrib /\ [][NextAdmit]_vars

InitPay ==
  /\ now = 0
  /\ ctorArgs = VoteRateLimiterArgs
  /\ options = RateLimiterCtor(ctorArgs)
  /\ store = <<>>
  /\ storeNoGc = <<>>
  /\ lastCheck = NoCheck
  /\ seq = [k \in Keys |-> 0]
  /\ InitH
  /\ InitP
  /\ env \in Envs

NextPay ==
  \/ \E p \in PaySlots, route \in {"direct", "vote"}, raw \in PayRaws : PayRequest(p, route, raw)
  \/ \E p \in PaySlots, a \in PayAnswers : PayGatewayAnswer(p, a)
  \/ \E p \in PaySlots, dbOk \in BOOLEAN : PayPersist(p, dbOk)

SpecPay == InitPay /\ [][NextPay]_vars

\* the PaymentRequest table under processDirectPayment and the gateway's callbacks
InitStore ==
  /\ InitPay
  /\ env = DefaultEnv

NextStore ==
  \/ \E p \in PaySlots, raw \in StoreRaws : PayRequest(p, "direct", raw)
  \/ \E p \in PaySlots, a \in PayAnswers : PayGatewayAnswer(p, a)
  \/ \E p \in PaySlots, dbOk \in BOOLEAN : PayPersist(p, dbOk)
  \/ \E pl \in CallbackPayloads : Callback(pl)

SpecStore == InitStore /\ [][NextStore]_vars

\* processDirectPayment from call to return. The gateway call always ends: axios is
\* given timeout: 30000 (payment-service.ts:197), so an answer or a failure arrives.
\* The upsert is awaited with no timeout (line 286), so nothing forces it to end.
GatewayCallEnds == \E p \in PaySlots, a \in PayAnswers : PayGatewayAnswer(p, a)

NextLive ==
  \/ \E p \in PaySlots, raw \in StoreRaws : PayRequest(p, "direct", raw)
  \/ GatewayCallEnds
  \/ \E p \in PaySlots, dbOk \in BOOLEAN : PayPersist(p, dbOk)

SpecLive == InitStore /\ [][NextLive]_vars /\ WF_vars(GatewayCallEnds)

\* phone numbers handed to validateAndNormalize: "07" followed by 8 or by 9 digits,
\* and numbers written with blanks
LocalDigits == {"1", "7"}
RECURSIVE DigitStrings(_)
DigitStrings(n) ==
  IF n = 0 THEN {<<>>} ELSE {Append(w, d) : w \in DigitStrings(n - 1), d \in LocalDigits}
LocalNumbers ==
  {<<"1", "2", "3", "4", "5">> \o w : w \in DigitStrings(3)}
    \cup {<<"1", "2", "3", "4", "5", "6">> \o w : w \in DigitStrings(3)}
SpacedPhones ==
  { <<"0", " ", "7", "1", "2", "3", "4", "5", "6", "7", "8">>,
    <<"0", " ", "7", "1", "2", " ", "3", "4", "5", " ", "6", "7", "8">>,
    <<"0", "7", " ", "1", "2", "3", "4", "5", "6", "7", "8">>,
    <<" ", "0", "7", "1", "2", "3", "4", "5", "6", "7", "8", " ">>,
    <<"7", "1", "2", " ", "3", "4", "5", " ", "6", "7", "8">>,
    <<"+", "2", "5", "4", " ", "7", "1", "2", "3", "4", "5", "6", "7", "8">>,
    <<"+", " ", "2", "5", "4", "7", "1", "2", "3", "4", "5", "6", "7", "8">>,
    <<"2", "5", "4", "7", " ", "1", "2", "3", "4", "5", "6", "7", "8">>,
    <<"1", "2", " ", "3", "4", "5">> }
PhoneInputs ==
  {<<"0", "7">> \o n : n \in LocalNumbers} \cup SpacedPhones
    \cup {PhoneLocal, PhonePlus, PhoneNine, PhoneCanonical, PhoneShort, PhoneAlpha}

PhoneRaws ==
  {Raw(25, "c1", "string", ph, ChannelMpesa, "tok", "", "k1") : ph \in PhoneInputs}

\* validateAndNormalize applied to these numbers, through processDirectPayment
NextPhone ==
  \/ \E p \in PaySlots, raw \in PhoneRaws : PayRequest(p, "direct", raw)
  \/ \E p \in PaySlots : PayGatewayAnswer(p, Answer("ok_true", "", "t1"))
  \/ \E p \in PaySlots : PayPersist(p, TRUE)

SpecPhone == InitStore /\ [][NextPhone]_vars

\* cache-utils on its own: two keys, two values, short lifetimes
NextCache ==
  \/ \E key \in Keys, value \in CacheValues, ttl \in 0..MaxTtl : CacheSet(key, value, ttl)
  \/ \E key \in Keys : CacheGet(key)
  \/ \E key \in Keys : CacheDelete(key)
  \/ ClearExpired
  \/ Tick

SpecCache == InitContrib /\ [][NextCache]_vars

CtorInputs ==
  [limit : 1..MaxLimit, windowMs : 2..MaxWindow, burstLimit : 0..MaxBurst,
   burstWindowExtension : 1..MaxExt]

InitRL ==
  /\ now = 0
  /\ ctorArgs \in CtorInputs
  /\ options = RateLimiterCtor(ctorArgs)
  /\ store = <<>>
  /\ storeNoGc = <<>>
  /\ lastCheck = NoCheck
  /\ seq = [k \in Keys |-> 0]
  /\ InitH
  /\ InitP
  /\ env = DefaultEnv

NextRL == (\E key \in Keys : Check(key)) \/ Cleanup \/ Tick

SpecRL == InitRL /\ [][NextRL]_vars

(***************************************************************************)
(* Claims about the RateLimiter (under SpecRL)                             *)
(***************************************************************************)

\* C1: for a limiter built with limit=L and burstLimit=B, the n-th check call on a
\* key inside one window is allowed exactly when n <= L + B.
C1_AdmitsExactlyLimitPlusBurst ==
  lastCheck.op = "check" =>
    (lastCheck.res.allowed <=> lastCheck.n <= ctorArgs.limit + ctorArgs.burstLimit)

\* C4: a check at or after the entry's resetTime (or with no entry) is admitted and
\* leaves count 1, burst count 0 and resetTime = now + windowMs, whatever the old
\* window held.
C4_ExpiredWindowIsDiscarded ==
  (lastCheck.op = "check" /\ (~lastCheck.present \/ lastCheck.pre.resetTime <= lastCheck.at)) =>
    /\ lastCheck.res.allowed
    /\ lastCheck.post.count = 1
    /\ lastCheck.post.burstCount = 0
    /\ lastCheck.post.resetTime = lastCheck.at + options.windowMs
    /\ lastCheck.res.resetTime = lastCheck.at + options.windowMs

\* the case of C4: an expired entry with a used, burst-extended window is checked
C4_Witness ==
  /\ lastCheck.op = "check" /\ lastCheck.present
  /\ lastCheck.pre.resetTime <= lastCheck.at
  /\ lastCheck.pre.count > 1 /\ lastCheck.pre.burstCount > 0
  /\ lastCheck.pre.resetTime > lastCheck.pre.burstResetTime

\* C5 as stated: every burst admission moves resetTime to its previous value plus
\* burstWindowExtension.
C5_BurstAddsExtension ==
  lastCheck.branch = "burst" =>
    lastCheck.post.resetTime = lastCheck.pre.resetTime + options.burstWindowExtension

\* C5 as amended: a burst admission at time now leaves resetTime at the later of
\* its previous value and now + burstWindowExtension (never earlier than before).
C5_BurstResetIsLaterOfTwo ==
  lastCheck.branch = "burst" =>
    /\ lastCheck.post.resetTime >= lastCheck.pre.resetTime
    /\ lastCheck.post.resetTime >= lastCheck.at + options.burstWindowExtension
    /\ lastCheck.post.resetTime \in
         {lastCheck.pre.resetTime, lastCheck.at + options.burstWindowExtension}

\* the case of C5: a burst admission that does move the reset time
C5_Witness ==
  /\ lastCheck.branch = "burst"
  /\ lastCheck.post.resetTime > lastCheck.pre.resetTime

(***************************************************************************)
(* Claims about the admission step of /api/contribute (under SpecAdmit)    *)
(***************************************************************************)

\* C2: while a key's window is open, the requests the handler has let past the
\* rate-limit step in that window number at most limit + burstLimit, and each of
\* them is counted in the limiter's entry of the key.
C2_AdmissionNeverSkipped ==
  \A ip \in Ips :
    (ip \in DOMAIN store /\ store[ip].resetTime > now) =>
      /\ passed[ip] <= options.limit + options.burstLimit
      /\ passed[ip] <= store[ip].count + store[ip].burstCount

\* C3: a request that arrives while its key's window is absent, expired or not yet
\* exhausted (base limit and burst allowance) is not answered 429.
C3_RejectedOnlyWhenExhausted ==
  \A r \in Slots :
    (reqs[r].pc # "idle" /\ ~reqs[r].exhausted) => reqs[r].resp.http # 429

\* the case of C3: a request arrives at or after the window's resetTime while a
\* decision taken in that window is still cached, and is admitted
C3_Witness ==
  \E r \in Slots :
    /\ reqs[r].pc # "idle" /\ reqs[r].expired /\ reqs[r].decision = "cached"
    /\ reqs[r].resp.http # 429

(***************************************************************************)
(* Claims about PaymentService and its routes (under SpecPay)              *)
(***************************************************************************)

\* C6: every request for which a gateway call was issued had a Rate Limiter decision
\* (fresh or cached, allowed) taken for it before.
C6_GatewayCallsAreAdmitted ==
  /\ \A r \in Slots : reqs[r].gw > 0 => reqs[r].decision \in {"checked", "cached"}
  /\ \A p \in PaySlots : pays[p].gw > 0 => pays[p].decision \in {"checked", "cached"}

\* C7: the Idempotency-Key header of a gateway call is the caller's key whenever a
\* (non-empty) key was supplied, the outcome is persisted under the key that was sent,
\* and all calls made for one supplied key carry the same header.
C7_SuppliedKeyIsSentAndPersisted ==
  /\ \A e \in gwLog : e.supplied # "" => e.sent = e.supplied
  /\ \A e1, e2 \in gwLog : (e1.supplied # "" /\ e1.supplied = e2.supplied) => e1.sent = e2.sent
  /\ \A p \in PaySlots :
       pays[p].gw > 0 =>
         /\ pays[p].raw.idempotencyKey # "" => pays[p].sentKey = pays[p].raw.idempotencyKey
         /\ pays[p].pc \in {"persisting", "done"} => pays[p].persistKey = pays[p].sentKey
         /\ pays[p].persisted => pays[p].sentKey \in DOMAIN records

\* the case of C7: a second invocation with key k1, whose first outcome is stored,
\* has sent its request to the gateway
C7_Witness ==
  \E p \in PaySlots :
    /\ pays[p].pc = "calling" /\ pays[p].raw.idempotencyKey = "k1"
    /\ "k1" \in DOMAIN records /\ pays[p].sentKey = "k1"

\* C8: an invocation of processDirectPayment has issued at most one gateway call, and
\* exactly one once its input has passed validation, whatever the gateway answered.
C8_ExactlyOneGatewayCall ==
  \A p \in PaySlots :
    /\ pays[p].gw <= 1
    /\ ( /\ pays[p].pc # "idle"
         /\ CallsService(pays[p].route, pays[p].raw, env)
         /\ PaySchemaOk(ServiceData(pays[p].route, pays[p].raw), env.channelCodes)
         /\ IsCanonicalPhone(NormalizePhone(pays[p].raw.phone_number)) ) => pays[p].gw = 1

\* the case of C8: the gateway did not answer and the invocation has returned
C8_Witness ==
  \E p \in PaySlots :
    pays[p].pc = "done" /\ pays[p].outcome = "no_response" /\ pays[p].gw = 1

\* C9: an invocation whose input fails the schema or whose phone does not normalize
\* to 2547XXXXXXXX returns status=false with no gateway call and no store write, and
\* every gateway call carries a phone of the form 2547XXXXXXXX.
C9_InvalidInputHasNoEffect ==
  \A p \in PaySlots :
    /\ ( /\ pays[p].pc # "idle"
         /\ CallsService(pays[p].route, pays[p].raw, env)
         /\ ~ ( /\ PaySchemaOk(ServiceData(pays[p].route, pays[p].raw), env.channelCodes)
                /\ IsCanonicalPhone(NormalizePhone(pays[p].raw.phone_number)) ) )
       => /\ pays[p].pc = "done" /\ ~pays[p].result.status
          /\ pays[p].gw = 0 /\ pays[p].persistKey = "" /\ ~pays[p].persisted
    /\ pays[p].gw > 0 => IsCanonicalPhone(pays[p].sentPhone)

\* the case of C9: a request that passes the schema with the phone "12345"
C9_Witness ==
  \E p \in PaySlots :
    /\ pays[p].pc = "done" /\ pays[p].raw.phone_number = PhoneShort
    /\ PaySchemaOk(pays[p].raw, env.channelCodes) /\ pays[p].route = "direct"
    /\ ~env.testMode /\ ~pays[p].result.status /\ pays[p].gw = 0

(***************************************************************************)
(* Claims about the payment flow of /api/contribute (under SpecContrib)    *)
(***************************************************************************)

\* C10: a request whose phone does not reduce to 2547 followed by 8 digits is
\* answered with status=false and no gateway call is issued for it.
C10_MalformedPhoneIsRejected ==
  \A r \in Slots :
    ( /\ reqs[r].pc # "idle" /\ reqs[r].body.json
      /\ ~IsCanonicalPhone(NormalizePhone(reqs[r].body.phone_number)) )
    => reqs[r].gw = 0 /\ reqs[r].pc = "done" /\ ~reqs[r].resp.status

(***************************************************************************)
(* Claims about the PaymentRequest records (under SpecPay and SpecStore)   *)
(***************************************************************************)

C12_PersistenceFailureKeepsResult ==
  \A p \in PaySlots :
    (pays[p].pc = "done" /\ pays[p].gw > 0) =>
      /\ pays[p].result.status <=> (pays[p].outcome = "ok_true")
      /\ pays[p].result.message = pays[p].write.message
      /\ pays[p].outcome = "ok_true" =>
           pays[p].result.transactionId = pays[p].write.transactionId

\* the case of C12: the gateway reported success and the upsert failed
C12_Witness ==
  \E p \in PaySlots :
    /\ pays[p].pc = "done" /\ pays[p].outcome = "ok_true"
    /\ env.dbOn /\ ~pays[p].persisted /\ pays[p].result.status

\* C13: no write to a PaymentRequest record (a retried processDirectPayment with the
\* same key, or a callback) sets a transaction id that is already there back to null.
C13_TransactionIdNeverCleared ==
  [][\A id \in DOMAIN records :
       records[id].transactionId # "" =>
         (id \in DOMAIN records' /\ records'[id].transactionId # "")]_vars

\* C14: a record whose status is 'completed' or 'failed' never afterwards has status
\* 'pending' or 'processing'.
C14_StatusIsMonotonic ==
  [][\A id \in DOMAIN records :
       records[id].status \in {"completed", "failed"} =>
         (id \in DOMAIN records' /\ records'[id].status \notin {"pending", "processing"})]_vars

\* C15: when processDirectPayment returns after a gateway call that the gateway
\* reported as success, a record for its idempotency key exists with status
\* 'processing' or 'completed'.
C15_RecordPresentAfterSuccess ==
  \A p \in PaySlots :
    (pays[p].pc = "done" /\ pays[p].outcome = "ok_true") =>
      /\ pays[p].key \in DOMAIN records
      /\ records[pays[p].key].status \in {"processing", "completed"}

(***************************************************************************)
(* Claims about the vote credit (under SpecContrib and SpecPay)            *)
(***************************************************************************)

\* C16: in /api/contribute a vote increment is scheduled only by the step that
\* handles an OK gateway response with a truthy body status, and the vote counters
\* change only when a scheduled increment runs.
C16_OnlySuccessSchedulesCredit ==
  [][/\ Len(timers') > Len(timers) =>
          \E r \in Slots : /\ reqs[r].pc = "fetching" /\ reqs'[r].pc = "done"
                           /\ reqs'[r].outcome = "ok_true"
     /\ votes' # votes => Len(timers') < Len(timers)]_vars

\* the case of C16: the gateway answered OK with a falsy status, nothing is scheduled
C16_Witness ==
  \E r \in Slots :
    /\ reqs[r].pc = "done" /\ reqs[r].outcome = "ok_false"
    /\ timers = <<>> /\ nOk = 0 /\ \A c \in DOMAIN votes : votes[c] = 0

\* C17: every scheduled credit is for max(1, floor(amount / 10)) votes (at least 1, and
\* for amounts of 10 or more the largest n with 10 n <= amount), a credit that runs
\* adds exactly its count to one candidate's counter, and no counter ever decreases.
C17_CreditIsAmountOverTen ==
  [][/\ \A i \in 1..Len(timers') :
          LET t == timers'[i] IN
            /\ t.voteCount >= 1
            /\ t.amount < 10 => t.voteCount = 1
            /\ t.amount >= 10 => (10 * t.voteCount <= t.amount /\ t.amount < 10 * (t.voteCount + 1))
     /\ \A c \in DOMAIN votes : c \in DOMAIN votes' /\ votes'[c] >= votes[c]
     /\ votes' # votes =>
          \E i \in 1..Len(timers) :
            /\ timers[i].candidateId \in DOMAIN votes
            /\ votes' = [votes EXCEPT ![timers[i].candidateId] = @ + timers[i].voteCount]]_vars

\* the case of C17: payments of 100 and of 5 have been credited, 10 + 1 votes
C17_Witness == votes["c1"] = 11 /\ timers = <<>>

\* C18: once a payment the gateway reported as success has been answered, for an
\* existing candidate, its credit of max(1, floor(amount / 10)) votes is scheduled or
\* already in the candidate's counter, in processDirectPayment and in /api/contribute.
C18_SuccessIsCredited ==
  /\ \A p \in PaySlots :
       ( /\ pays[p].pc = "done" /\ pays[p].outcome = "ok_true"
         /\ pays[p].raw.kitty_id \in DOMAIN votes ) =>
         \/ votes[pays[p].raw.kitty_id] >= VoteCount(pays[p].raw.amount)
         \/ \E i \in 1..Len(timers) :
              /\ timers[i].candidateId = pays[p].raw.kitty_id
              /\ timers[i].voteCount = VoteCount(pays[p].raw.amount)
  /\ \A r \in Slots :
       ( /\ reqs[r].pc = "done" /\ reqs[r].outcome = "ok_true"
         /\ reqs[r].body.kitty_id \in DOMAIN votes ) =>
         \/ votes[reqs[r].body.kitty_id] >= VoteCount(reqs[r].body.amount)
         \/ \E i \in 1..Len(timers) :
              /\ timers[i].candidateId = reqs[r].body.kitty_id
              /\ timers[i].voteCount = VoteCount(reqs[r].body.amount)

\* C19: the response of /api/contribute to a gateway success is 200 with status=true
\* from the moment it is produced, and a scheduled increment that runs, whether its
\* update succeeds or fails, changes no request's response.
C19_CreditIsDetached ==
  [][/\ \A r \in Slots :
          (reqs'[r].pc = "done" /\ reqs'[r].outcome = "ok_true") =>
            (reqs'[r].resp.http = 200 /\ reqs'[r].resp.status)
     /\ Len(timers') < Len(timers) => reqs' = reqs]_vars

\* the case of C19: the response is out while the increment is still pending
C19_Witness ==
  \E r \in Slots :
    /\ reqs[r].pc = "done" /\ reqs[r].outcome = "ok_true" /\ reqs[r].resp.status
    /\ reqs[r].body.kitty_id \notin DOMAIN votes
    /\ Len(timers) = 1 /\ timers[1].candidateId = reqs[r].body.kitty_id

(***************************************************************************)
(* Claims about the messages returned to the caller                        *)
(***************************************************************************)

\* C20: when the gateway reports a failure (a 4xx/5xx response or a body with a falsy
\* status) carrying the message m, the caller's result has status=false and message m,
\* in processDirectPayment and in /api/contribute.
C20_FailureMessageIsVerbatim ==
  /\ \A p \in PaySlots :
       ( /\ pays[p].pc = "done" /\ pays[p].gwMsg # ""
         /\ pays[p].outcome \in {"ok_false", "http_4xx", "http_5xx"} ) =>
         (~pays[p].result.status /\ pays[p].result.message = pays[p].gwMsg)
  /\ \A r \in Slots :
       ( /\ reqs[r].pc = "done" /\ reqs[r].gwMsg # ""
         /\ reqs[r].outcome \in {"ok_false", "http_error"} ) =>
         (~reqs[r].resp.status /\ reqs[r].resp.message = reqs[r].gwMsg)

(***************************************************************************)
(* Claims about termination (under SpecLive)                               *)
(***************************************************************************)

\* C21: every invocation of processDirectPayment that has called the gateway, and
\* every /api/contribute request that has, eventually returns its result.
C21_EveryInvocationReturns ==
  /\ \A p \in PaySlots : (pays[p].pc \in {"calling", "persisting"}) ~> (pays[p].pc = "done")
  /\ \A r \in Slots : (reqs[r].pc = "fetching") ~> (reqs[r].pc = "done")

(***************************************************************************)
(* Claims about phone normalization (under SpecPhone)                      *)
(***************************************************************************)

\* C22 as stated: for every N of 9 digits, "07" followed by N passes
\* validateAndNormalize and is sent to the gateway as "2547" followed by N.
C22_LocalNineDigits ==
  \A p \in PaySlots :
    LET ph == pays[p].raw.phone_number IN
    (pays[p].pc # "idle" /\ Len(ph) = 11 /\ StartsWith(ph, <<"0", "7">>) /\ AllDigits(ph)) =>
      (pays[p].gw = 1 /\ pays[p].sentPhone = <<"2", "5", "4", "7">> \o SubSeq(ph, 3, 11))

\* C22 amended: for every N of 8 digits, "07" followed by N passes
\* validateAndNormalize and is sent to the gateway as "2547" followed by N.
C22_LocalEightDigits ==
  \A p \in PaySlots :
    LET ph == pays[p].raw.phone_number IN
    (pays[p].pc # "idle" /\ Len(ph) = 10 /\ StartsWith(ph, <<"0", "7">>) /\ AllDigits(ph)) =>
      (pays[p].gw = 1 /\ pays[p].sentPhone = <<"2", "5", "4", "7">> \o SubSeq(ph, 3, 10))

\* the case of C22: "07" followed by 1 2 3 4 5 7 1 1 has been sent to the gateway
C22_Witness ==
  \E p \in PaySlots :
    /\ pays[p].raw.phone_number = <<"0", "7", "1", "2", "3", "4", "5", "7", "1", "1">>
    /\ pays[p].gw = 1
    /\ pays[p].sentPhone = <<"2", "5", "4", "7", "1", "2", "3", "4", "5", "7", "1", "1">>

\* C23: a number written with blanks has the outcome of the number without them: the
\* same phone sent to the gateway, or a validation failure in both cases.
C23_BlanksDoNotMatter ==
  \A p \in PaySlots :
    LET bare == NormalizePhone(StripSpaces(pays[p].raw.phone_number)) IN
    pays[p].pc # "idle" =>
      IF IsCanonicalPhone(bare)
      THEN pays[p].gw = 1 /\ pays[p].sentPhone = bare
      ELSE pays[p].gw = 0 /\ ~pays[p].result.status

(***************************************************************************)
(* Claims about channel codes and payment methods (under SpecPay)          *)
(***************************************************************************)

\* C24: a request handed to processDirectPayment with a channel code outside the
\* known codes (63902, 63903, 55) ends as a validation failure with no gateway call,
\* whatever ONE_KITTY_CHANNEL_CODES is set to.
C24_UnknownChannelIsRejected ==
  \A p \in PaySlots :
    ( /\ pays[p].pc # "idle"
      /\ CallsService(pays[p].route, pays[p].raw, env)
      /\ pays[p].raw.channel_code \notin KnownChannelCodes ) =>
      (pays[p].pc = "done" /\ pays[p].gw = 0 /\ ~pays[p].result.status)

\* C25: a request without explicit payment method is recorded with the method of its
\* channel code (63902 mpesa, 63903 airtel, 55 card), and with an unknown code it is a
\* validation failure.
C25_MethodFollowsChannel ==
  \A p \in PaySlots :
    LET code == pays[p].raw.channel_code
        method == CASE code = ChannelMpesa -> "mpesa"
                    [] code = ChannelAirtel -> "airtel"
                    [] code = ChannelCard -> "card"
                    [] OTHER -> "none"
    IN ( /\ pays[p].pc = "done" /\ pays[p].raw.paymentMethod = ""
         /\ CallsService(pays[p].route, pays[p].raw, env) ) =>
         /\ code \notin KnownChannelCodes => (pays[p].gw = 0 /\ ~pays[p].result.status)
         /\ ( /\ pays[p].persisted
              /\ records[pays[p].key].channelCode = code
              /\ code \in KnownChannelCodes ) => records[pays[p].key].paymentMethod = method

(***************************************************************************)
(* Claims about the cache (under SpecCache)                                *)
(***************************************************************************)

\* C26: getCacheItem(k) returns the value last set under k when k was not deleted
\* since and the time is at most the set's time plus its ttl, and null otherwise,
\* whether or not the sweep has run; and the sweep leaves every unexpired entry in
\* place.
C26_CacheIsTtlMap ==
  /\ cacheLog.got.key # "" =>
       LET g == cacheLog.got IN
       IF g.key \in DOMAIN cacheLog.expect /\ g.at <= cacheLog.expect[g.key].until
       THEN g.hit /\ g.value = cacheLog.expect[g.key].value
       ELSE ~g.hit
  /\ \A k \in DOMAIN cacheLog.expect :
       cacheLog.expect[k].until >= now =>
         (k \in DOMAIN cache /\ cache[k].value = cacheLog.expect[k].value)

\* the case of C26: a get at exactly set time + ttl, after time has passed, is a hit
C26_Witness ==
  LET g == cacheLog.got IN
  /\ g.key \in DOMAIN cacheLog.expect /\ g.hit
  /\ g.at = cacheLog.expect[g.key].until /\ g.at > 0

(***************************************************************************)
(* Further claims about the RateLimiter (under SpecRL)                     *)
(***************************************************************************)

\* C27: every stored entry has count <= limit and burst count <= burstLimit, its
\* burst count is positive only when count = limit, and every check result has
\* 0 <= remaining <= limit - 1, with remaining = 0 on every burst admission and on
\* every rejection.
C27_EntryAndResultBounds ==
  /\ \A k \in DOMAIN store :
       /\ store[k].count <= options.limit
       /\ store[k].burstCount <= options.burstLimit
       /\ store[k].burstCount > 0 => store[k].count = options.limit
  /\ lastCheck.op = "check" =>
       /\ lastCheck.res.remaining >= 0
       /\ lastCheck.res.remaining <= options.limit - 1
       /\ lastCheck.branch \in {"burst", "limited"} => lastCheck.res.remaining = 0

\* the case of C27: a rejection of a key whose entry is full on both counters
C27_Witness ==
  /\ lastCheck.op = "check" /\ lastCheck.branch = "limited"
  /\ ~lastCheck.res.allowed /\ lastCheck.res.remaining = 0
  /\ store[lastCheck.key].count = options.limit
  /\ store[lastCheck.key].burstCount = options.burstLimit
  /\ options.burstLimit > 0

\* C28: a check(key) leaves the entry of every other key as it was (present or
\* absent), and a check that returns allowed = false leaves the whole store as it
\* was: count, burst count and resetTime of the key's entry are unchanged.
C28_CheckFrame ==
  [][lastCheck'.op = "check" =>
       /\ \A k \in Keys \ {lastCheck'.key} :
            /\ (k \in DOMAIN store') = (k \in DOMAIN store)
            /\ k \in DOMAIN store => store'[k] = store[k]
       /\ ~lastCheck'.res.allowed => store' = store]_vars

\* the case of C28: a rejected check at a later time than the entry's creation,
\* while the other key holds an entry too
C28_Witness ==
  /\ lastCheck.op = "check" /\ ~lastCheck.res.allowed
  /\ lastCheck.post = lastCheck.pre
  /\ lastCheck.at > 0
  /\ \E k \in DOMAIN store : k # lastCheck.key

\* C29: cleanup() deletes only entries whose resetTime has passed, and every check
\* returns what it would have returned had cleanup never run (storeNoGc is the
\* store of the same call sequence without any cleanup).
C29_CleanupIsUnobservable ==
  [][/\ lastCheck'.op = "check" =>
          lastCheck'.res = check(storeNoGc, options, lastCheck'.key, now).res
     /\ \A k \in DOMAIN store \ DOMAIN store' : store[k].resetTime <= now]_vars

\* the case of C29: a check of a key whose entry was absent, after time has passed,
\* while cleanup has removed the other key's expired entry
C29_Witness ==
  /\ lastCheck.op = "check" /\ ~lastCheck.present /\ lastCheck.at > 0
  /\ \E k \in DOMAIN storeNoGc : k # lastCheck.key /\ k \notin DOMAIN store

(***************************************************************************)
(* Claims about callback reconciliation (under SpecStore)                  *)
(***************************************************************************)

\* C30: at all times at most one record carries a given transaction id; and a
\* callback that changes the records either updates one existing record in place
\* (no record added) or adds exactly one record, whose transaction id no record
\* carried and whose id no record had, leaving every existing record as it was.
C30_CallbackNeverDuplicates ==
  /\ [](\A j, k \in DOMAIN records :
          (records[j].transactionId # "" /\ records[j].transactionId = records[k].transactionId)
            => j = k)
  /\ [][(pays' = pays /\ records' # records) =>
          /\ DOMAIN records \subseteq DOMAIN records'
          /\ \/ /\ DOMAIN records' = DOMAIN records
                /\ Cardinality({k \in DOMAIN records : records'[k] # records[k]}) = 1
             \/ /\ Cardinality(DOMAIN records' \ DOMAIN records) = 1
                /\ \A k \in DOMAIN records : records'[k] = records[k]
                /\ \A n \in DOMAIN records' \ DOMAIN records :
                     \A k \in DOMAIN records :
                       records[k].transactionId # records'[n].transactionId]_vars

\* the case of C30: a record written by the service and matched by a callback
\* stands beside a record that a callback for an unknown transaction created
C30_Witness ==
  \E j, k \in DOMAIN records :
    /\ j # k
    /\ records[j].phoneNumber # PhoneUnknown /\ records[j].transactionId # ""
    /\ records[j].responseMessage \in {"Callback processed", "Callback received", "paid"}
    /\ records[k].phoneNumber = PhoneUnknown
    /\ records[k].transactionId # records[j].transactionId

====
